---- MODULE Spec2Model ----
(***************************************************************************)
(* A model of rwcarlsen/optim: the batch evaluators (SerialEvaler,         *)
(* CacheEvaler), the mesh hierarchy (Infinite, Bounded, Integer) and the   *)
(* particle swarm iterator (Particle, Population, Iterator).               *)
(*                                                                         *)
(* Floating point coordinates are fixed-point numbers: the integer k       *)
(* stands for the float64 k / Scale, which is exact for the small          *)
(* magnitudes used here because Scale is a power of two.                   *)
(***************************************************************************)
EXTENDS Integers, Sequences, FiniteSets, TLC

VARIABLES
    comp,       \* the component a behaviour exercises: "eval", "mesh" or "swarm"
    failset,    \* the objective: the coordinate vectors whose evaluation fails
    contOnErr,  \* SerialEvaler.ContinueOnErr
    cache,      \* CacheEvaler.cache: digest -> value
    handed,     \* per vector, how often it was passed to the underlying evaluator
    ncalls,     \* number of CacheEvaler.Eval calls made so far
    lastEval,   \* the last Eval call: its input, results and error
    mesh,       \* the mesh object: the Infinite at the core and its wrappers
    lastMesh,   \* the last mesh call: its input, output and whether it panicked
    Pop,        \* Iterator.Pop
    itEvaler,   \* Iterator.Evaler
    reqEvaler,  \* the evaluator e handed to NewIterator (<<>> is nil)
    nsteps,     \* number of Iterate steps made so far
    lastIter    \* the last Iterate step

vars == <<comp, failset, contOnErr, cache, handed, ncalls, lastEval,
          mesh, lastMesh, Pop, itEvaler, reqEvaler, nsteps, lastIter>>

evalVars  == <<contOnErr, handed, ncalls, lastEval>>
meshVars  == <<mesh, lastMesh>>
swarmVars == <<Pop, itEvaler, reqEvaler, nsteps, lastIter>>

----------------------------------------------------------------------------
(* Bounds *)

ScaleLog2 == 2              \* coordinates are multiples of 1 / 2^ScaleLog2
Scale     == 2 ^ ScaleLog2
MaxBatch  == 3              \* longest list of points given to one Eval call
MaxCalls  == 2              \* CacheEvaler.Eval calls in one behaviour
MaxSteps  == 2              \* Iterate steps in one behaviour

\* math.Inf(1): larger than every objective value of the model
PosInf == 9999

Abs(x) == IF x < 0 THEN -x ELSE x
Max(a, b) == IF a >= b THEN a ELSE b
Min(a, b) == IF a <= b THEN a ELSE b

RECURSIVE Log2Floor(_)
Log2Floor(n) == IF n <= 1 THEN 0 ELSE 1 + Log2Floor(n \div 2)

RECURSIVE SeqsUpTo(_, _)
SeqsUpTo(S, n) ==
    IF n = 0 THEN {<<>>}
    ELSE LET shorter == SeqsUpTo(S, n - 1)
         IN shorter \cup {Append(s, x) : s \in {t \in shorter : Len(t) = n - 1}, x \in S}

Count(v, s) == Cardinality({i \in 1..Len(s) : s[i] = v})

----------------------------------------------------------------------------
(* Points and the objective *)

\* Point{Pos, Val}
Point(pos, val) == [Pos |-> pos, Val |-> val]

\* the zero value of Point, as make([]Point, n) fills a slice with
ZeroPoint == Point(<<>>, 0)

\* the coordinate vectors the evaluator component is driven with
EvalCoords  == {0, 1}
EvalVectors == {<<x>> : x \in EvalCoords}

RECURSIVE SumSq(_)
SumSq(v) == IF v = <<>> THEN 0 ELSE Head(v) * Head(v) + SumSq(Tail(v))

\* Objectiver.Objective: the value, and the error ({} is nil).  A failing
\* evaluation returns positive infinity along with an error; the error is
\* identified by the vector it failed on.
Objective(v) ==
    IF v \in failset THEN [val |-> PosInf, err |-> {v}]
    ELSE [val |-> SumSq(v), err |-> {}]

\* binary.BigEndian.PutUint64(_, math.Float64bits(x)) for x = k / Scale:
\* sign bit, 11 bits of biased exponent, 52 bits of fraction, of which only
\* the top four can be set for |k| < 32
Float64Bytes(k) ==
    IF k = 0 THEN <<0, 0, 0, 0, 0, 0, 0, 0>>
    ELSE LET a    == Abs(k)
             e    == Log2Floor(a)
             bexp == 1023 + e - ScaleLog2
             top  == ((a - 2 ^ e) * 16) \div (2 ^ e)
             sgn  == IF k < 0 THEN 128 ELSE 0
         IN <<sgn + (bexp \div 16), (bexp % 16) * 16 + top, 0, 0, 0, 0, 0, 0>>

RECURSIVE PosBytes(_)
PosBytes(pos) ==
    IF pos = <<>> THEN <<>> ELSE Float64Bytes(Head(pos)) \o PosBytes(Tail(pos))

\* hashPoint: the digest of the big-endian bit patterns of the coordinates.
\* sha1.Sum is taken to be collision free, so the digest is the data hashed.
hashPoint(p) == PosBytes(p.Pos)

----------------------------------------------------------------------------
(* SerialEvaler *)

\* the test `err != nil && !ev.ContinueOnErr` of the loop
SerialStops(err, cont) == err # {} /\ ~cont

RECURSIVE SerialLoop(_, _, _, _)
SerialLoop(points, i, results, cont) ==
    IF i > Len(points) THEN [results |-> results, err |-> {}]
    ELSE LET o  == Objective(points[i].Pos)
             rs == [results EXCEPT ![i] = Point(points[i].Pos, o.val)]
         IN IF SerialStops(o.err, cont) THEN [results |-> rs, err |-> o.err]
            ELSE SerialLoop(points, i + 1, rs, cont)

\* SerialEvaler.Eval
SerialEvalerEval(points, cont) ==
    SerialLoop(points, 1, [i \in 1..Len(points) |-> ZeroPoint], cont)

----------------------------------------------------------------------------
(* CacheEvaler *)

CacheHitNever(c, p) == FALSE

\* `val, ok := ev.cache[hashPoint(p)]`
CacheHit(c, p) == hashPoint(p) \in DOMAIN c

\* the first loop of CacheEvaler.Eval
CacheHits(c, points) ==
    LET hit == SelectSeq(points, LAMBDA p : CacheHit(c, p))
    IN [i \in 1..Len(hit) |-> Point(hit[i].Pos, c[hashPoint(hit[i])])]

CacheMisses(c, points) == SelectSeq(points, LAMBDA p : ~CacheHit(c, p))

\* the second loop of CacheEvaler.Eval: ev.cache[hashPoint(p)] = p.Val
RECURSIVE CacheStore(_, _)
CacheStore(c, ps) ==
    IF ps = <<>> THEN c
    ELSE LET k == hashPoint(Head(ps))
         IN CacheStore([d \in DOMAIN c \cup {k} |->
                           IF d = k THEN Head(ps).Val ELSE c[d]], Tail(ps))

\* CacheEvaler.Eval over an underlying SerialEvaler{ContinueOnErr: cont}
CacheEvalerEval(c, points, cont) ==
    LET newp  == CacheMisses(c, points)
        inner == SerialEvalerEval(newp, cont)
    IN [results |-> CacheHits(c, points) \o inner.results,
        err     |-> inner.err,
        newp    |-> newp,
        cache   |-> CacheStore(c, inner.results)]

\* NewCacheEvaler: an empty cache
EmptyCache == [d \in {} |-> 0]

Batches == {[i \in 1..Len(s) |-> Point(s[i], 0)] : s \in SeqsUpTo(EvalVectors, MaxBatch)}

NoEval == [kind |-> "none", points |-> <<>>, results |-> <<>>, err |-> {},
           newp |-> <<>>, before |-> {}]

NoneHanded == [v \in EvalVectors |-> 0]

InitEval ==
    /\ comp = "eval"
    /\ failset \in SUBSET EvalVectors
    /\ contOnErr \in BOOLEAN
    /\ cache = EmptyCache
    /\ handed = NoneHanded
    /\ ncalls = 0
    /\ lastEval = NoEval

\* a call of SerialEvaler{contOnErr}.Eval(obj, points...)
SerialEval(points) ==
    /\ comp = "eval"
    /\ LET r == SerialEvalerEval(points, contOnErr)
       IN lastEval' = [kind |-> "serial", points |-> points, results |-> r.results,
                       err |-> r.err, newp |-> <<>>, before |-> {}]
    /\ UNCHANGED <<comp, failset, contOnErr, cache, handed, ncalls>>
    /\ UNCHANGED <<meshVars, swarmVars>>

\* a call of CacheEvaler.Eval(obj, points...), the CacheEvaler wrapping a
\* call-counting SerialEvaler{contOnErr}
CacheEval(points) ==
    /\ comp = "eval"
    /\ ncalls < MaxCalls
    /\ LET r == CacheEvalerEval(cache, points, contOnErr)
       IN /\ cache' = r.cache
          /\ handed' = [v \in EvalVectors |->
                           handed[v] + Count(Point(v, 0), r.newp)]
          /\ lastEval' = [kind |-> "cache", points |-> points, results |-> r.results,
                          err |-> r.err, newp |-> r.newp, before |-> DOMAIN cache]
    /\ ncalls' = ncalls + 1
    /\ UNCHANGED <<comp, failset, contOnErr>>
    /\ UNCHANGED <<meshVars, swarmVars>>

----------------------------------------------------------------------------
(* Meshes: an Infinite with the unit basis (Basis == nil) and the Integer  *)
(* and Bounded wrappers around it.  Constr is left out: the projection     *)
(* Nearest(p, A, B) it calls is not part of these sources.                 *)

MaxCoord == 6               \* mesh coordinates run over -MaxCoord..MaxCoord
MaxWrap  == 2               \* wrappers (Bounded, Integer) around the Infinite

\* division truncated toward zero, the integer part math.Modf returns
TruncDiv(x, s) == IF x >= 0 THEN x \div s ELSE -((-x) \div s)

\* One coordinate of the loop "calculate nearest point" of Infinite.Nearest,
\* for the local coordinate x and StepSize s (both in units of 1 / Scale):
\*     n, rem := math.Modf(x / s); if rem/s > 0.5 { n++ }; n * s
\* rem is (x - n*s) / s, and s as a float is s / Scale, so rem / StepSize is
\* (x - n*s) * Scale / (s * s).
SnapCoord(x, s) ==
    LET n == TruncDiv(x, s)
        r == x - n * s
    IN IF 2 * r * Scale > s * s THEN (n + 1) * s ELSE n * s

Zeros(n) == [i \in 1..n |-> 0]

\* Infinite.Nearest with Basis == nil.  The result is the point returned, or
\* a panic; an unset Center counts as the origin the call then fixes.
InfiniteNearest(center, step, p) ==
    IF step = 0 THEN [panic |-> FALSE, out |-> p]
    ELSE IF Len(center) # 0 /\ Len(center) # Len(p) THEN [panic |-> TRUE, out |-> <<>>]
    ELSE LET c == IF Len(center) = 0 THEN Zeros(Len(p)) ELSE center
         IN [panic |-> FALSE,
             out   |-> [i \in 1..Len(p) |-> SnapCoord(p[i] - c[i], step) + c[i]]]

\* math.Floor(x + .5) of Integer.Nearest
RoundHalfUp(x) == ((2 * x + Scale) \div (2 * Scale)) * Scale

\* the clamp loop of Bounded.Nearest
Clamp(lower, upper, p) == [i \in 1..Len(p) |-> Min(upper[i], Max(lower[i], p[i]))]

IntegerLayer == [kind |-> "Integer", Lower |-> <<>>, Upper |-> <<>>]
BoundedLayer(lower, upper) == [kind |-> "Bounded", Lower |-> lower, Upper |-> upper]

\* Nearest of the mesh made of the Infinite m and its first lvl wrappers
\* (the outermost wrapper is the last of m.layers):
\* Bounded.Nearest clamps and delegates, and indexes Lower and Upper by the
\* indices of p; Integer.Nearest delegates and rounds.
RECURSIVE MeshNearest(_, _, _)
MeshNearest(m, lvl, p) ==
    IF lvl = 0 THEN InfiniteNearest(m.Center, m.StepSize, p)
    ELSE LET l == m.layers[lvl]
         IN IF l.kind = "Bounded"
            THEN IF Len(p) > Len(l.Lower) \/ Len(p) > Len(l.Upper)
                 THEN [panic |-> TRUE, out |-> <<>>]
                 ELSE MeshNearest(m, lvl - 1, Clamp(l.Lower, l.Upper, p))
            ELSE LET r == MeshNearest(m, lvl - 1, p)
                 IN IF r.panic THEN r
                    ELSE [panic |-> FALSE,
                          out |-> [i \in 1..Len(r.out) |-> RoundHalfUp(r.out[i])]]

Nearest(m, p) == MeshNearest(m, Len(m.layers), p)

\* the Center after a call of Nearest that did not panic:
\* `if len(m.Center) == 0 { m.Center = make([]float64, len(p)) }`
CenterAfter(m, p) ==
    IF m.StepSize # 0 /\ Len(m.Center) = 0 THEN Zeros(Len(p)) ELSE m.Center

\* SetStep through the wrappers: Integer.SetStep raises the step to at least 1
RECURSIVE MeshSetStep(_, _, _)
MeshSetStep(m, lvl, step) ==
    IF lvl = 0 THEN step
    ELSE IF m.layers[lvl].kind = "Integer"
         THEN MeshSetStep(m, lvl - 1, Max(step, Scale))
         ELSE MeshSetStep(m, lvl - 1, step)

\* SetOrigin through the wrappers: Integer.SetOrigin snaps the origin with
\* its own Nearest before it hands it on
RECURSIVE MeshSetOrigin(_, _, _)
MeshSetOrigin(m, lvl, origin) ==
    IF lvl = 0 THEN [panic |-> FALSE, out |-> origin]
    ELSE IF m.layers[lvl].kind = "Integer"
         THEN LET r == MeshNearest(m, lvl, origin)
              IN IF r.panic THEN r ELSE MeshSetOrigin(m, lvl - 1, r.out)
         ELSE MeshSetOrigin(m, lvl - 1, origin)

MeshCoords == (-MaxCoord)..MaxCoord
MeshSteps  == {0, Scale \div 2, Scale, Scale + Scale \div 2}
MeshPoints == {<<x>> : x \in MeshCoords} \cup {<<x, y>> : x, y \in {-3, 2}}
Origins    == {<<0>>, <<1>>, <<-2>>, <<0, 0>>}
BoundVecs  == {<<x>> : x \in {-3, 0, 3}} \cup {<<-3, -3>>, <<2, 2>>}
BoundPairs == {lu \in BoundVecs \X BoundVecs :
                  Len(lu[1]) = Len(lu[2]) =>
                      \A i \in 1..Len(lu[1]) : lu[1][i] <= lu[2][i]}

\* &Infinite{Center: center, StepSize: step}
Infinite(center, step) == [Center |-> center, StepSize |-> step, layers |-> <<>>]

NoMeshCall == [op |-> "none", p |-> <<>>, upper |-> <<>>, center |-> <<>>,
               out |-> <<>>, panic |-> FALSE]

MeshCall(op, p, upper, out, panic) ==
    [op |-> op, p |-> p, upper |-> upper, center |-> mesh.Center,
     out |-> out, panic |-> panic]

InitMesh ==
    /\ comp = "mesh"
    /\ mesh \in {Infinite(c, s) : c \in {<<>>} \cup Origins, s \in MeshSteps}
    /\ lastMesh = NoMeshCall

IdleMesh == Infinite(<<>>, 0)

\* &Integer{m}
WrapInteger ==
    /\ comp = "mesh"
    /\ Len(mesh.layers) < MaxWrap
    /\ mesh' = [mesh EXCEPT !.layers = Append(@, IntegerLayer)]
    /\ lastMesh' = MeshCall("Integer", <<>>, <<>>, <<>>, FALSE)
    /\ UNCHANGED <<comp, failset, cache, evalVars, swarmVars>>

\* NewBounded(m, lower, upper)
NewBounded(lower, upper) ==
    /\ comp = "mesh"
    /\ Len(mesh.layers) < MaxWrap
    /\ LET probe == Nearest(mesh, lower)
           panic == Len(lower) # Len(upper) \/ probe.panic
       IN /\ mesh' = IF panic THEN mesh
                     ELSE [mesh EXCEPT !.Center = CenterAfter(mesh, lower),
                                       !.layers = Append(@, BoundedLayer(lower, upper))]
          /\ lastMesh' = MeshCall("NewBounded", lower, upper, <<>>, panic)
    /\ UNCHANGED <<comp, failset, cache, evalVars, swarmVars>>

\* m.SetStep(step)
SetStep(step) ==
    /\ comp = "mesh"
    /\ mesh' = [mesh EXCEPT !.StepSize = MeshSetStep(mesh, Len(mesh.layers), step)]
    /\ lastMesh' = MeshCall("SetStep", <<>>, <<>>, <<>>, FALSE)
    /\ UNCHANGED <<comp, failset, cache, evalVars, swarmVars>>

\* m.SetOrigin(origin)
SetOrigin(origin) ==
    /\ comp = "mesh"
    /\ LET r == MeshSetOrigin(mesh, Len(mesh.layers), origin)
       IN /\ mesh' = IF r.panic THEN mesh ELSE [mesh EXCEPT !.Center = r.out]
          /\ lastMesh' = MeshCall("SetOrigin", origin, <<>>, r.out, r.panic)
    /\ UNCHANGED <<comp, failset, cache, evalVars, swarmVars>>

\* m.Nearest(p)
CallNearest(p) ==
    /\ comp = "mesh"
    /\ LET r == Nearest(mesh, p)
       IN /\ mesh' = IF r.panic THEN mesh
                     ELSE [mesh EXCEPT !.Center = CenterAfter(mesh, p)]
          /\ lastMesh' = MeshCall("Nearest", p, <<>>, r.out, r.panic)
    /\ UNCHANGED <<comp, failset, cache, evalVars, swarmVars>>

NextMesh ==
    \/ WrapInteger
    \/ \E lu \in BoundPairs : NewBounded(lu[1], lu[2])
    \/ \E s \in MeshSteps : SetStep(s)
    \/ \E o \in Origins : SetOrigin(o)
    \/ \E p \in MeshPoints : CallNearest(p)

----------------------------------------------------------------------------
(* Particle swarm *)

UpdateAlways(p, newp) == [p EXCEPT !.Val = newp.Val, !.Best = newp]

\* Particle.Update
Update(p, newp) ==
    LET val == newp.Val
    IN [p EXCEPT !.Val = val,
                 !.Best = IF val < p.Best.Val \/ Len(p.Best.Pos) = 0
                          THEN newp ELSE p.Best]

\* NewPopulation: the personal best starts at the particle's position with
\* value +Inf
NewPopulation(points) ==
    [i \in 1..Len(points) |->
        [Id |-> i - 1, Pos |-> points[i].Pos, Val |-> points[i].Val,
         Best |-> Point(points[i].Pos, PosInf)]]

\* Population.Points
PopPoints(pop) == [i \in 1..Len(pop) |-> Point(pop[i].Pos, pop[i].Val)]

\* Population.Best: the first particle whose personal best no other beats
RECURSIVE PopBestFrom(_, _, _)
PopBestFrom(pop, i, best) ==
    IF i > Len(pop) THEN best
    ELSE PopBestFrom(pop, i + 1,
                     IF pop[i].Best.Val < best.Val THEN pop[i].Best ELSE best)

PopBest(pop) == PopBestFrom(pop, 2, pop[1].Best)

\* the evaluators an Iterator can hold: a SerialEvaler, or a CacheEvaler
\* around a SerialEvaler
SerialEvaler(cont) == [kind |-> "Serial", cont |-> cont]
CacheEvaler(cont)  == [kind |-> "Cache", cont |-> cont]
NilEvaler          == [kind |-> "nil", cont |-> FALSE]
Evalers == {SerialEvaler(b) : b \in BOOLEAN} \cup {CacheEvaler(b) : b \in BOOLEAN}

\* ev.Eval(obj, points...) for an evaluator of Evalers; c is the cache of the
\* CacheEvaler
EvalerEval(ev, c, points) ==
    IF ev.kind = "Cache"
    THEN LET r == CacheEvalerEval(c, points, ev.cont)
         IN [results |-> r.results, err |-> r.err, cache |-> r.cache]
    ELSE LET r == SerialEvalerEval(points, ev.cont)
         IN [results |-> r.results, err |-> r.err, cache |-> c]

\* the Evaler of the Iterator that NewIterator(pop, e, m) returns
NewIteratorEvaler(e) == SerialEvaler(FALSE)

\* optim.Nearest(p, m): the point p snapped onto the mesh m
OptimNearest(p, m) == Point(Nearest(m, p.Pos).out, p.Val)

\* the loop `for i := range results { it.Pop[i].Update(results[i]) }`
UpdateAll(pop, results) ==
    [i \in 1..Len(pop) |-> IF i <= Len(results) THEN Update(pop[i], results[i]) ELSE pop[i]]

\* Mover.Move: the position of every particle changes, its value stays as
\* it is until the next evaluation (`p.Point = optim.NewPoint(pos, p.Val)`)
\* and its personal best is left alone.  The new positions, which
\* SimpleMover computes from random weights, are an input of the step.
Move(pop, to) == [i \in 1..Len(pop) |-> [pop[i] EXCEPT !.Pos = to[i]]]

SwarmVectors == {<<-3>>, <<0>>, <<4>>}
SwarmStarts  == {<<Point(<<0>>, 0), Point(<<4>>, 0)>>,
                 <<Point(<<-3>>, 0), Point(<<-3>>, 0)>>}
SwarmFails   == {{}, {<<4>>}, {<<0>>, <<-3>>}}
\* the meshes handed to Iterate; <<>> is nil
SwarmMeshes  == {<<>>, <<Infinite(<<>>, Scale)>>}

NoIter == [points |-> <<>>, results |-> <<>>, err |-> {}, ok |-> FALSE,
           via |-> NilEvaler, best |-> ZeroPoint]

NoRequest == [how |-> "none", e |-> NilEvaler]

\* the iterator is built by NewIterator(pop, e, m), e possibly nil, or as
\* the literal &Iterator{Pop: pop, Evaler: e, Mover: m}
InitSwarm ==
    /\ comp = "swarm"
    /\ failset \in SwarmFails
    /\ cache = EmptyCache
    /\ \E start \in SwarmStarts : Pop = NewPopulation(start)
    /\ \/ \E e \in Evalers \cup {NilEvaler} :
             /\ reqEvaler = [how |-> "NewIterator", e |-> e]
             /\ itEvaler = NewIteratorEvaler(e)
       \/ \E e \in Evalers :
             /\ reqEvaler = [how |-> "literal", e |-> e]
             /\ itEvaler = e
    /\ nsteps = 0
    /\ lastIter = NoIter

\* Iterator.Iterate(obj, m), the Mover moving the particles to `to`.  The
\* evaluation count n that Iterate returns is left out: Evaler.Eval returns
\* no count.
Iterate(m, to) ==
    /\ comp = "swarm"
    /\ nsteps < MaxSteps
    /\ LET pts    == PopPoints(Pop)
           points == IF m = <<>> THEN pts
                     ELSE [i \in 1..Len(pts) |-> OptimNearest(pts[i], m[1])]
           r      == EvalerEval(itEvaler, cache, points)
       IN /\ cache' = r.cache
          /\ IF r.err # {}
             THEN /\ Pop' = Pop
                  /\ lastIter' = [points |-> points, results |-> r.results,
                                  err |-> r.err, ok |-> FALSE, via |-> itEvaler,
                                  best |-> ZeroPoint]
             ELSE /\ Pop' = Move(UpdateAll(Pop, r.results), to)
                  /\ lastIter' = [points |-> points, results |-> r.results,
                                  err |-> {}, ok |-> TRUE, via |-> itEvaler,
                                  best |-> PopBest(Pop')]
    /\ nsteps' = nsteps + 1
    /\ UNCHANGED <<comp, failset, itEvaler, reqEvaler, evalVars, meshVars>>

\* Iterator.AddPoint
AddPoint(p) ==
    /\ comp = "swarm"
    /\ p.Val < PopBest(Pop).Val
    /\ Pop' = [Pop EXCEPT ![1].Best = p]
    /\ UNCHANGED <<comp, failset, cache, itEvaler, reqEvaler, nsteps, lastIter,
                   evalVars, meshVars>>

NextSwarm ==
    \/ \E m \in SwarmMeshes, to \in [1..Len(Pop) -> SwarmVectors] : Iterate(m, to)
    \/ \E v \in SwarmVectors : AddPoint(Point(v, SumSq(v)))

----------------------------------------------------------------------------
(* Specifications *)

NextEval ==
    \/ \E points \in Batches : SerialEval(points)
    \/ \E points \in Batches : CacheEval(points)

Init ==
    \/ /\ InitEval
       /\ mesh = IdleMesh /\ lastMesh = NoMeshCall
       /\ Pop = <<>> /\ itEvaler = NilEvaler /\ reqEvaler = NoRequest
       /\ nsteps = 0 /\ lastIter = NoIter
    \/ /\ InitMesh
       /\ failset = {} /\ cache = EmptyCache
       /\ contOnErr = FALSE /\ handed = NoneHanded /\ ncalls = 0 /\ lastEval = NoEval
       /\ Pop = <<>> /\ itEvaler = NilEvaler /\ reqEvaler = NoRequest
       /\ nsteps = 0 /\ lastIter = NoIter
    \/ /\ InitSwarm
       /\ contOnErr = FALSE /\ handed = NoneHanded /\ ncalls = 0 /\ lastEval = NoEval
       /\ mesh = IdleMesh /\ lastMesh = NoMeshCall

Next == NextEval \/ NextMesh \/ NextSwarm

\* one component at a time
Spec == Init /\ [][Next]_vars

\* the evaluators alone
OnlyEval == Init /\ comp = "eval"
SpecEval == OnlyEval /\ [][NextEval]_vars

\* a mesh alone
OnlyMesh == Init /\ comp = "mesh"
SpecMesh == OnlyMesh /\ [][NextMesh]_vars

\* a swarm iterator alone
OnlySwarm == Init /\ comp = "swarm"
SpecSwarm == OnlySwarm /\ [][NextSwarm]_vars

----------------------------------------------------------------------------
(* Properties of the evaluators *)

\* the indices of the points of a batch on which the objective fails
FailIdx(points) == {i \in 1..Len(points) : Objective(points[i].Pos).err # {}}

SetMin(S) == CHOOSE x \in S : \A y \in S : x <= y
SetMax(S) == CHOOSE x \in S : \A y \in S : x >= y

\* what an evaluator has to report for the i-th point of a batch
Evaluated(points, i) == Point(points[i].Pos, Objective(points[i].Pos).val)

\* C1: a SerialEvaler without ContinueOnErr, given a batch whose first
\* failing point is the k-th, returns exactly the k-1 points evaluated before
\* it, each with its coordinates and value, and no unevaluated point, along
\* with the error of the k-th point.
C1_AbortReturnsEvaluatedOnly ==
    (lastEval.kind = "serial" /\ ~contOnErr /\ FailIdx(lastEval.points) # {}) =>
        LET k == SetMin(FailIdx(lastEval.points))
        IN /\ Len(lastEval.results) = k - 1
           /\ \A i \in 1..Len(lastEval.results) :
                 lastEval.results[i] = Evaluated(lastEval.points, i)
           /\ lastEval.err = {lastEval.points[k].Pos}

\* C2: a SerialEvaler with ContinueOnErr evaluates every point of the batch
\* in input order and returns one result per point; if an evaluation failed,
\* the error returned is the one of the last failing evaluation.
C2_ContinueReturnsLastError ==
    (lastEval.kind = "serial" /\ contOnErr) =>
        /\ Len(lastEval.results) = Len(lastEval.points)
        /\ \A i \in 1..Len(lastEval.results) :
              lastEval.results[i] = Evaluated(lastEval.points, i)
        /\ FailIdx(lastEval.points) # {} =>
              lastEval.err = {lastEval.points[SetMax(FailIdx(lastEval.points))].Pos}

\* C3, as claimed: over any sequence of Eval calls on one CacheEvaler, no
\* coordinate vector is handed to the underlying evaluator more than once,
\* whether it comes again in a later batch or in the same batch.
C3_HandedAtMostOnce == \A v \in EvalVectors : handed[v] <= 1

\* C3, amended: in every Eval call of a CacheEvaler, a vector whose digest
\* is in the cache when the call starts is not handed to the underlying
\* evaluator at all, and a vector whose digest is not is handed over once
\* for each time it occurs in the batch.
C3_CachedNotHandedAgain ==
    lastEval.kind = "cache" =>
        \A v \in EvalVectors :
            Count(Point(v, 0), lastEval.newp) =
                IF PosBytes(v) \in lastEval.before THEN 0
                ELSE Count(Point(v, 0), lastEval.points)

\* a second call was given a vector that the first had cached, and the
\* vector has been handed to the underlying evaluator once
C3_Witness ==
    /\ lastEval.kind = "cache"
    /\ ncalls = 2
    /\ \E v \in EvalVectors :
          /\ PosBytes(v) \in lastEval.before
          /\ Count(Point(v, 0), lastEval.points) > 0
          /\ handed[v] = 1

----------------------------------------------------------------------------
(* Properties of the meshes *)

\* C4: snapping is idempotent for a mesh with nonzero step, be it an
\* Infinite or a Bounded or Integer around one: Nearest of a point that
\* Nearest returned is that point.
C4_NearestIdempotent ==
    (/\ lastMesh.op = "Nearest"
     /\ ~lastMesh.panic
     /\ mesh.StepSize # 0
     /\ Len(mesh.layers) <= 1) =>
        Nearest(mesh, lastMesh.out) = [panic |-> FALSE, out |-> lastMesh.out]

\* C5: every coordinate of a point that a Bounded around a grid of step
\* s > 0 returns lies within [Lower - s/2, Upper + s/2].
C5_BoundedContainment ==
    (/\ lastMesh.op = "Nearest"
     /\ ~lastMesh.panic
     /\ mesh.StepSize > 0
     /\ Len(mesh.layers) = 1
     /\ mesh.layers[1].kind = "Bounded") =>
        \A i \in 1..Len(lastMesh.out) :
            /\ 2 * mesh.layers[1].Lower[i] - mesh.StepSize <= 2 * lastMesh.out[i]
            /\ 2 * lastMesh.out[i] <= 2 * mesh.layers[1].Upper[i] + mesh.StepSize

\* C7: NewBounded panics whenever lower and upper differ in length, and
\* whenever the length of the bounds differs from the length of the origin
\* the wrapped mesh already has, whatever the step of that mesh.
C7_NewBoundedPanics ==
    (/\ lastMesh.op = "NewBounded"
     /\ \/ Len(lastMesh.p) # Len(lastMesh.upper)
        \/ Len(lastMesh.center) # 0 /\ Len(lastMesh.center) # Len(lastMesh.p)) =>
        lastMesh.panic

\* C8: every coordinate of the point an Infinite of step s > 0 returns is
\* the origin plus a whole number of steps and is at most s/2 away from the
\* coordinate given.
C8_RoundsToNearest ==
    (/\ lastMesh.op = "Nearest"
     /\ ~lastMesh.panic
     /\ mesh.StepSize > 0
     /\ mesh.layers = <<>>) =>
        \A i \in 1..Len(lastMesh.out) :
            /\ (lastMesh.out[i] - mesh.Center[i]) % mesh.StepSize = 0
            /\ 2 * Abs(lastMesh.out[i] - lastMesh.p[i]) <= mesh.StepSize

----------------------------------------------------------------------------
(* Properties of the swarm iterator *)

\* C6: from one step to the next no particle's personal best value
\* increases, and after a step that updated the particles no particle's
\* personal best value is greater than its current value.
C6_BestNeverIncreases ==
    [][\A i \in 1..Len(Pop) :
          /\ Pop'[i].Best.Val <= Pop[i].Best.Val
          /\ (nsteps' > nsteps /\ lastIter'.ok) => Pop'[i].Best.Val <= Pop'[i].Val]_vars

\* after two steps a particle holds a personal best that is better than the
\* value of its last evaluation
C6_Witness ==
    /\ nsteps = 2
    /\ lastIter.ok
    /\ \E i \in 1..Len(Pop) : Pop[i].Best.Val < Pop[i].Val

\* C9: every step of an iterator built by NewIterator(pop, e, m) with a
\* non-nil e evaluates its batch through e.
C9_UsesConfiguredEvaler ==
    (nsteps > 0 /\ reqEvaler.how = "NewIterator" /\ reqEvaler.e # NilEvaler) =>
        lastIter.via = reqEvaler.e

\* C10: in every successful step, the point given to Pop[i].Update has the
\* coordinates of the i-th point submitted and that point's objective value.
C10_UpdatedWithOwnPoint ==
    lastIter.ok =>
        \A i \in 1..Len(Pop) :
            /\ i <= Len(lastIter.results)
            /\ lastIter.results[i] = Evaluated(lastIter.points, i)

====
